---- MODULE Spec2Model ----
(***************************************************************************)
(* Model of the ranking and search endpoints of the user-ranking service   *)
(* (src/api/sort.js, src/api/trending.js, src/api/search.js and the        *)
(* unnamed variants part_000, part_001, part_002), of the rate limiter of  *)
(* part_002 and of the registration handlers (src/api/register.js,         *)
(* handleRegister of part_002, part_006).                                  *)
(*                                                                         *)
(* Spec is the ranking and search endpoints on any store, RateSpec the     *)
(* part_002 API behind its rate limiter, RegSpec the registration          *)
(* handlers running concurrently.                                          *)
(*                                                                         *)
(* Every handler fetches the whole 'users' table, filters, scores, sorts,  *)
(* truncates and answers.  The store is the external database: its content *)
(* is drawn in Init from a catalogue of records, the request parameters    *)
(* from small sets in each action.                                         *)
(*                                                                         *)
(* Time is counted in hours: every millisecond constant of the scoring     *)
(* code (60*60*1000, 24*60*60*1000, ...) is a whole number of hours; the   *)
(* clock of the rate limiter is counted in its windows of 15 minutes.      *)
(* Numbers (JS doubles) are integers, exact rationals n/d, Infinity or NaN;*)
(* a score as stored in an entry, parseFloat(score.toFixed(4)), is an      *)
(* integer count of ten-thousandths.                                       *)
(***************************************************************************)
EXTENDS Integers, Sequences, FiniteSets, TLC

VARIABLES users, req, res, fetch, requestCounts, clock, accepted,
          reg, auth, profiles, db

\* the state of the rate limiter of src/unnamed/part_002
limiterVars == <<requestCounts, clock, accepted>>

\* the state of the registration handlers: the requests being handled,
\* the accounts of Firebase Authentication, the 'profiles' table, and the
\* db of src/unnamed/part_006
regVars == <<reg, auth, profiles, db>>

vars == <<users, req, res, fetch, limiterVars, regVars>>

----------------------------------------------------------------------------
(* Bounds of the model *)

\* largest number of records in the 'users' table
MaxUsers == 2

\* largest value of the limit parameter that a request carries
MaxLimit == 2

\* largest reading of the rate limiter's clock, in windows of 15 minutes
MaxTime == 2

\* number of registration requests
MaxRegistrations == 2

----------------------------------------------------------------------------
(* Time *)

\* Date.now() of the request, in hours
Now == 1000

HOUR == 1
DAY == 24

\* the values n successive calls of Date.now() return when the first is at
\* now or later: the clock does not go back, and advances by at most the
\* unit of time over the calls
DateNowReadings(now, n) ==
    { r \in [1..n -> {now, now + HOUR}] :
        \A i, j \in 1..n : i < j => r[i] <= r[j] }

----------------------------------------------------------------------------
(* The store: records of the 'users' table.  An absent number field is 0   *)
(* and an absent string field is the empty string, which the code's        *)
(* truthiness tests (x || d, !x) do not tell apart from absence; isActive  *)
(* is FALSE only for an explicit false.                                    *)

User(name, p, s, c, l, a) ==
    [username |-> name, points |-> p, submissions |-> s,
     createdAt |-> c, lastActive |-> l, isActive |-> a]

Catalogue ==
    { User(<<"a","l","i","c","e">>, 5, 1, Now - 1 * HOUR, 0, TRUE),
      User(<<"b","o","b">>, 50, 0, Now - 2 * HOUR, Now - 1 * HOUR, TRUE),
      User(<<"a","l">>, 50, 1, Now - 1 * HOUR, 0, FALSE),
      User(<<"A","l","i","c","e">>, 50, 0, 0, 0, TRUE),
      User(<<"s","a","l">>, 5, 0, Now - 1 * DAY, Now - 3 * HOUR, TRUE),
      User(<<"a","l">>, 50, 1, Now - 200 * HOUR, Now - 100 * HOUR, TRUE),
      User(<<"b","o">>, 5, 1, Now + 3 * HOUR, 0, TRUE),
      User(<<>>, 0, 0, Now - 1 * HOUR, 0, TRUE),
      User(<<"m","a","l">>, 1, 0, Now - 250 * HOUR, 0, TRUE) }

\* a snapshot of db.ref('users'): children in key order; the key of the
\* i-th child is i
Stores == UNION { [1..n -> Catalogue] : n \in 0..MaxUsers }

----------------------------------------------------------------------------
(* JS numbers *)

Num(n, d) == [k |-> "num", n |-> n, d |-> d]
Whole(n) == Num(n, 1)
NaN == [k |-> "nan", n |-> 0, d |-> 1]
Infinity(s) == [k |-> "inf", n |-> s, d |-> 1]

Abs(n) == IF n < 0 THEN -n ELSE n
Sgn(n) == IF n < 0 THEN -1 ELSE IF n > 0 THEN 1 ELSE 0
Max(a, b) == IF a >= b THEN a ELSE b
Min(a, b) == IF a <= b THEN a ELSE b

\* n / d for two finite numbers given as integers in the same unit
Div(n, d) ==
    IF d = 0 THEN (IF n = 0 THEN NaN ELSE Infinity(Sgn(n)))
    ELSE IF d < 0 THEN Num(-n, -d) ELSE Num(n, d)

RECURSIVE Pow10(_)
Pow10(i) == IF i = 0 THEN 1 ELSE 10 * Pow10(i - 1)

\* the i decimal digits of r/d (0 <= r < d) as an integer, rounded half up
RECURSIVE Digits(_, _, _)
Digits(r, d, i) ==
    IF i = 0 THEN (IF 2 * r >= d THEN 1 ELSE 0)
    ELSE ((r * 10) \div d) * Pow10(i - 1) + Digits((r * 10) % d, d, i - 1)

\* parseFloat(x.toFixed(4)) in ten-thousandths; Infinity and NaN pass through
toFixed4(x) ==
    IF x.k # "num" THEN [k |-> x.k, v |-> x.n]
    ELSE LET a == Abs(x.n)
             m == (a \div x.d) * 10000 + Digits(a % x.d, x.d, 4)
         IN  [k |-> "num", v |-> Sgn(x.n) * m]

\* Math.pow(x, 1.8) for whole x >= 1, in ten-thousandths
MathPow18(x) ==
    CASE x = 1 -> 10000
      [] x = 2 -> 34822
      [] x = 3 -> 72247
      [] x = 4 -> 121257
      [] x = 5 -> 181195
      [] x = 6 -> 251578
      [] x = 26 -> 3523319
      [] x = 27 -> 3770985
      [] x = 202 -> 141134265
      [] x = 203 -> 142394386
      [] x = 252 -> 210145925
      [] x = 253 -> 211649350

\* a / Math.pow(x, gravity), gravity = 1.8: the power of a negative base with
\* a fractional exponent is NaN, and 0^1.8 is 0
OverGravity(a, x) ==
    IF x < 0 THEN NaN
    ELSE IF x = 0 THEN Div(a, 0)
    ELSE Div(a * 10000, MathPow18(x))

\* Math.log10(p) for the whole p >= 1 of the model, in hundred-thousandths
MathLog10(p) ==
    CASE p = 1 -> 0
      [] p = 5 -> 69897
      [] p = 10 -> 100000
      [] p = 50 -> 169897

\* x || d on numbers: 0 (and an absent field) is falsy
OrElse(x, d) == IF x # 0 THEN x ELSE d

----------------------------------------------------------------------------
(* Request parameters: a query-string value is absent, a text that does    *)
(* not start with a number, or a whole number.                             *)

Absent == [t |-> "absent", v |-> 0]
Text == [t |-> "text", v |-> 0]
Number(i) == [t |-> "number", v |-> i]

\* const { p = d } = req.query
Default(p, d) == IF p.t = "absent" THEN d ELSE p

\* parseInt(p): NaN for a text that does not start with a number
parseInt(p) == IF p.t = "number" THEN [k |-> "num", v |-> p.v] ELSE [k |-> "nan", v |-> 0]

\* x || d where x is the result of parseInt: NaN and 0 are falsy
NumOrElse(x, d) == IF x.k = "nan" \/ x.v = 0 THEN [k |-> "num", v |-> d] ELSE x

\* a < b on numbers where b is the result of parseInt: false when b is NaN
LessThan(a, b) == b.k = "num" /\ a < b.v

----------------------------------------------------------------------------
(* Arrays *)

\* slice with its end one too far: list.slice(0, end + 1)
slice_OneMore(list, end) ==
    LET n == Len(list)
        e == IF end.k = "nan" THEN 0
             ELSE IF end.v < 0 THEN Max(n + end.v, 0) ELSE Min(end.v, n)
    IN  SubSeq(list, 1, Min(e + 1, n))

\* list.slice(0, end): a NaN end counts as 0, a negative end counts from
\* the back
slice(list, end) ==
    LET n == Len(list)
        e == IF end.k = "nan" THEN 0
             ELSE IF end.v < 0 THEN Max(n + end.v, 0) ELSE Min(end.v, n)
    IN  SubSeq(list, 1, e)

\* the sign of x - y for two stored scores; 2 stands for NaN
SubSign(x, y) ==
    IF x.k = "nan" \/ y.k = "nan" THEN 2
    ELSE IF x.k = "inf" /\ y.k = "inf" THEN (IF x.v = y.v THEN 2 ELSE x.v)
    ELSE IF x.k = "inf" THEN x.v
    ELSE IF y.k = "inf" THEN -y.v
    ELSE Sgn(x.v - y.v)

\* SortCompare: the engine reads a comparator result of NaN as +0
SortCompare(c) == IF c = 2 THEN 0 ELSE c

\* A comparator is given by its results on the elements of a list:
\* cmp[i][j] is SortCompare(comparator(list[i], list[j])).

\* whether cmp is a consistent comparator for the list (ECMAScript,
\* Array.prototype.sort)
Consistent(cmp) ==
    LET I == DOMAIN cmp
    IN  /\ \A i \in I : cmp[i][i] = 0
        /\ \A i, j \in I : (cmp[i][j] < 0) <=> (cmp[j][i] > 0)
        /\ \A i, j, l \in I :
              /\ (cmp[i][j] = 0 /\ cmp[j][l] = 0) => cmp[i][l] = 0
              /\ (cmp[i][j] < 0 /\ cmp[j][l] < 0) => cmp[i][l] < 0

\* StableSort with equal elements in reverse order
StableSort_TiesReversed(list, cmp) ==
    LET I == 1..Len(list)
        pos(i) == 1 + Cardinality({ j \in I :
                        \/ cmp[j][i] < 0
                        \/ (cmp[j][i] = 0 /\ j > i) })
    IN  [p \in I |-> list[CHOOSE i \in I : pos(i) = p]]

\* the stable sort of list under a consistent comparator
StableSort(list, cmp) ==
    LET I == 1..Len(list)
        pos(i) == 1 + Cardinality({ j \in I :
                        \/ cmp[j][i] < 0
                        \/ (cmp[j][i] = 0 /\ j < i) })
    IN  [p \in I |-> list[CHOOSE i \in I : pos(i) = p]]

(* Under a comparator that is not consistent the order is                  *)
(* implementation-defined.  The handlers run on Node.js, whose engine      *)
(* sorts with TimSort; an array shorter than 64 elements is one run:       *)
(* CountAndMakeRun finds the run the array starts with (reversing it when  *)
(* it is strictly descending) and BinaryInsertionSort inserts the rest.    *)
(* idx is the array as a sequence of indices into the list being sorted.   *)

\* the length of the run idx starts with, k elements of it (k >= 2) known
RECURSIVE CountRun(_, _, _, _)
CountRun(idx, cmp, isDescending, k) ==
    IF k = Len(idx) THEN k
    ELSE LET order == cmp[idx[k + 1]][idx[k]]
         IN  IF isDescending
             THEN (IF order >= 0 THEN k
                   ELSE CountRun(idx, cmp, isDescending, k + 1))
             ELSE (IF order < 0 THEN k
                   ELSE CountRun(idx, cmp, isDescending, k + 1))

\* idx with its first runLength elements in reverse order
ReverseRange(idx, runLength) ==
    [i \in DOMAIN idx |-> IF i <= runLength THEN idx[runLength + 1 - i] ELSE idx[i]]

\* idx after CountAndMakeRun, with the length of the run
CountAndMakeRun(idx, cmp) ==
    IF Len(idx) < 2 THEN [run |-> Len(idx), idx |-> idx]
    ELSE LET isDescending == cmp[idx[2]][idx[1]] < 0
             runLength == CountRun(idx, cmp, isDescending, 2)
         IN  [run |-> runLength,
              idx |-> IF isDescending THEN ReverseRange(idx, runLength) ELSE idx]

\* the place of pivot among idx[left .. right - 1]
RECURSIVE BinarySearch(_, _, _, _, _)
BinarySearch(idx, cmp, pivot, left, right) ==
    IF left >= right THEN left
    ELSE LET mid == left + ((right - left) \div 2)
             order == cmp[pivot][idx[mid]]
         IN  IF order < 0 THEN BinarySearch(idx, cmp, pivot, left, mid)
             ELSE BinarySearch(idx, cmp, pivot, mid + 1, right)

\* idx[1 .. start - 1] is sorted; insert idx[start], idx[start + 1], ...
RECURSIVE BinaryInsertionSort(_, _, _)
BinaryInsertionSort(idx, cmp, start) ==
    IF start > Len(idx) THEN idx
    ELSE LET pivot == idx[start]
             left == BinarySearch(idx, cmp, pivot, 1, start)
             moved == [i \in DOMAIN idx |->
                         IF i < left \/ i > start THEN idx[i]
                         ELSE IF i = left THEN pivot
                         ELSE idx[i - 1]]
         IN  BinaryInsertionSort(moved, cmp, start + 1)

\* list.sort(comparator) as the engine computes it
ArrayTimSort(list, cmp) ==
    LET made == CountAndMakeRun([i \in DOMAIN list |-> i], cmp)
        idx == BinaryInsertionSort(made.idx, cmp, made.run + 1)
    IN  [p \in DOMAIN list |-> list[idx[p]]]

\* the outcomes of list.sort(comparator): the stable sort when the
\* comparator is consistent, the engine's order otherwise
sort(list, cmp) ==
    IF Consistent(cmp) THEN { StableSort(list, cmp) }
    ELSE { ArrayTimSort(list, cmp) }

\* the comparator (a, b) => b.score - a.score over a list of scores
byScoreDescending(scores) ==
    [i \in DOMAIN scores |->
        [j \in DOMAIN scores |-> SortCompare(SubSign(scores[j], scores[i]))]]

\* withRank with rank: index
withRank_ZeroBased(list) == [i \in DOMAIN list |-> [rank |-> i - 1] @@ list[i]]

\* list.map((user, index) => ({ rank: index + 1, ...user }))
withRank(list) == [i \in DOMAIN list |-> [rank |-> i] @@ list[i]]

\* the children of the snapshot with their keys, in key order
children(snapshot) == [i \in DOMAIN snapshot |-> [key |-> i, val |-> snapshot[i]]]

----------------------------------------------------------------------------
(* String parameters: "(absent)" stands for a parameter the request does   *)
(* not carry.                                                              *)

NoParam == "(absent)"

DefaultString(p, d) == IF p = NoParam THEN d ELSE p

Anonymous == <<"A","n","o","n","y","m","o","u","s">>
Unknown == <<"U","n","k","n","o","w","n">>

\* s || d on strings: the empty (and the absent) string is falsy
StringOrElse(s, d) == IF s # <<>> THEN s ELSE d

\* the values the limit and minPoints parameters take
NumberParams == {Absent, Text} \cup { Number(i) : i \in -1..MaxLimit }
MinPointsParams == {Absent, Text, Number(10)}

TimeframeParams ==
    {NoParam, "1h", "6h", "12h", "24h", "7d", "30d",
     "today", "week", "month", "all", "bogus"}

----------------------------------------------------------------------------
(* Responses.  list is the users / trending / leaderboard / results array  *)
(* of the body, total its stats.totalUsers / totalAnalyzed / total /       *)
(* totalUsers / totalMatches; an error body has neither.                   *)

NoRequest == [endpoint |-> "none"]
NoResponse == [status |-> 0]

Ok(list, total) ==
    [status |-> 200, success |-> TRUE, body |-> "list",
     list |-> list, total |-> total, available |-> {}]

Error(status, available) ==
    [status |-> status, success |-> FALSE, body |-> "error",
     list |-> <<>>, total |-> 0, available |-> available]

----------------------------------------------------------------------------
(* One request is in the model at a time: a handler keeps nothing between  *)
(* requests, so a request starts from the idle state and its response is   *)
(* taken off before the next one.                                          *)

Idle == req = NoRequest /\ res = NoResponse

\* the response has been sent and the invocation ends
Complete ==
    /\ req # NoRequest
    /\ req' = NoRequest
    /\ res' = NoResponse
    /\ fetch' = "none"
    /\ UNCHANGED <<users, limiterVars, regVars>>

(* fetch is the db.ref('users').once('value') of the invocation: "none"    *)
(* while the handler has not called it, "ok" when its promise resolved     *)
(* with the snapshot, "failed" when it rejected and the handler's catch    *)
(* block wrote the response.                                               *)
FetchOutcomes == {"ok", "failed"}

\* Invoke writing the store back without its first record
Invoke_DropsFirst(q, reads, responses, caught, f) ==
    /\ req' = q
    /\ fetch' = IF reads THEN f ELSE "none"
    /\ res' \in IF reads /\ f = "failed" THEN {caught} ELSE responses
    /\ users' = IF reads /\ users # <<>> THEN Tail(users) ELSE users
    /\ UNCHANGED <<limiterVars, regVars>>

\* one invocation of a handler on the request q: reads tells whether the
\* handler reaches its fetch on q, responses are its responses when the
\* fetch resolves (or is not reached), caught is the response of its catch
\* block, f the outcome of the fetch
Invoke(q, reads, responses, caught, f) ==
    /\ req' = q
    /\ fetch' = IF reads THEN f ELSE "none"
    /\ res' \in IF reads /\ f = "failed" THEN {caught} ELSE responses
    /\ UNCHANGED <<users, limiterVars, regVars>>

----------------------------------------------------------------------------
(* src/api/sort.js *)

SortAlgorithmKeys == {"trending", "new", "top", "active", "efficient", "recent"}

\* property names every object literal inherits from Object.prototype
ObjectPrototypeKeys == {"constructor"}

\* the algorithm parameter of a sort request
SortAlgorithmParams ==
    {NoParam} \cup SortAlgorithmKeys \cup ObjectPrototypeKeys
        \cup {"hackernews", "bogus"}

\* SORT_ALGORITHMS with top returning the submissions
SORT_ALGORITHMS_TopBySubmissions(algorithm, user, now) ==
    CASE algorithm = "trending" ->
           LET ageInHours == (now - OrElse(user.createdAt, now)) \div HOUR
           IN  OverGravity(user.points + user.submissions * 2, ageInHours + 2)
      [] algorithm = "new" -> Whole(-user.createdAt)
      [] algorithm = "top" -> Whole(user.submissions)
      [] algorithm = "active" -> Whole(user.submissions)
      [] algorithm = "efficient" ->
           LET age == now - OrElse(user.createdAt, now)
           IN  IF age > DAY THEN Div(user.points * DAY, age)
               ELSE Whole(user.points)
      [] algorithm = "recent" ->
           Whole(OrElse(user.lastActive, user.createdAt))

\* SORT_ALGORITHMS[algorithm](user, now) for an own key
SORT_ALGORITHMS(algorithm, user, now) ==
    CASE algorithm = "trending" ->
           LET ageInHours == (now - OrElse(user.createdAt, now)) \div HOUR
           IN  OverGravity(user.points + user.submissions * 2, ageInHours + 2)
      [] algorithm = "new" -> Whole(-user.createdAt)
      [] algorithm = "top" -> Whole(user.points)
      [] algorithm = "active" -> Whole(user.submissions)
      [] algorithm = "efficient" ->
           LET age == now - OrElse(user.createdAt, now)
           IN  \* points / Math.max(1, ageInDays), ageInDays = age / DAY
               IF age > DAY THEN Div(user.points * DAY, age)
               ELSE Whole(user.points)
      [] algorithm = "recent" ->
           Whole(OrElse(user.lastActive, user.createdAt))

\* sortTimeThreshold starting from now - DAY, as trending.js does
sortTimeThreshold_DefaultDay(timeframe, now) ==
    CASE timeframe = "today" -> now - DAY
      [] timeframe = "week" -> now - 7 * DAY
      [] timeframe = "month" -> now - 30 * DAY
      [] OTHER -> now - DAY

\* the timeframe filter's threshold
sortTimeThreshold(timeframe, now) ==
    CASE timeframe = "today" -> now - DAY
      [] timeframe = "week" -> now - 7 * DAY
      [] timeframe = "month" -> now - 30 * DAY
      [] OTHER -> 0

\* sortKeeps without the isActive test
sortKeeps_KeepsInactive(user, timeframe, timeThreshold, minPoints) ==
    /\ ~(timeframe # "all" /\ (user.createdAt = 0 \/ user.createdAt < timeThreshold))
    /\ ~LessThan(user.points, parseInt(minPoints))

\* sortKeeps dropping a record with no createdAt under every timeframe
sortKeeps_DropsNoCreatedAt(user, timeframe, timeThreshold, minPoints) ==
    /\ user.isActive # FALSE
    /\ ~(user.createdAt = 0 \/ (timeframe # "all" /\ user.createdAt < timeThreshold))
    /\ ~LessThan(user.points, parseInt(minPoints))

\* the test of the snapshot.forEach callback: whether the child is scored
sortKeeps(user, timeframe, timeThreshold, minPoints) ==
    /\ user.isActive # FALSE
    /\ ~(timeframe # "all" /\ (user.createdAt = 0 \/ user.createdAt < timeThreshold))
    /\ ~LessThan(user.points, parseInt(minPoints))

\* the entry pushed for a child
sortEntry(child, algorithm, now) ==
    [id |-> child.key,
     username |-> StringOrElse(child.val.username, Anonymous),
     points |-> child.val.points,
     submissions |-> child.val.submissions,
     createdAt |-> OrElse(child.val.createdAt, now),
     lastActive |-> OrElse(child.val.lastActive, OrElse(child.val.createdAt, now)),
     score |-> toFixed4(SORT_ALGORITHMS(algorithm, child.val, now))]

\* the users array after snapshot.forEach
sortUsers(snapshot, algorithm, timeframe, minPoints, now) ==
    LET kept == SelectSeq(children(snapshot),
                    LAMBDA c : sortKeeps(c.val, timeframe,
                                   sortTimeThreshold(timeframe, now), minPoints))
    IN  [i \in DOMAIN kept |-> sortEntry(kept[i], algorithm, now)]

\* the responses of GET /api/sort
sortResponses(snapshot, q, now) ==
    LET algorithm == DefaultString(q.algorithm, "trending")
        limit == Default(q.limit, Number(20))
        timeframe == DefaultString(q.timeframe, "all")
        minPoints == Default(q.minPoints, Number(0))
        kept == SelectSeq(children(snapshot),
                    LAMBDA c : sortKeeps(c.val, timeframe,
                                   sortTimeThreshold(timeframe, now), minPoints))
    IN  IF algorithm \notin SortAlgorithmKeys \cup ObjectPrototypeKeys
        THEN { Error(400, SortAlgorithmKeys) }
        ELSE IF algorithm \in ObjectPrototypeKeys
        THEN \* Object(user) has no toFixed: the callback throws on the
             \* first child it scores
             IF kept # <<>> THEN { Error(500, {}) } ELSE { Ok(<<>>, 0) }
        ELSE LET list == sortUsers(snapshot, algorithm, timeframe, minPoints, now)
                 limitNum == parseInt(limit)
             IN  { Ok(withRank(slice(sorted, limitNum)), Len(list)) :
                     sorted \in sort(list, byScoreDescending(
                                   [i \in DOMAIN list |-> list[i].score])) }

\* whether the handler reaches its fetch: the algorithm passed the
\* validation
sortReads(q) ==
    DefaultString(q.algorithm, "trending")
        \in SortAlgorithmKeys \cup ObjectPrototypeKeys

\* the response of the catch block
sortCatch == Error(500, {})

SortHandler ==
    /\ Idle
    /\ \E a \in SortAlgorithmParams, l \in NumberParams,
          t \in TimeframeParams, m \in MinPointsParams,
          outcome \in FetchOutcomes :
           LET q == [endpoint |-> "sort", algorithm |-> a, limit |-> l,
                     timeframe |-> t, minPoints |-> m]
           IN  Invoke(q, sortReads(q), sortResponses(users, q, Now),
                      sortCatch, outcome)

----------------------------------------------------------------------------
(* src/api/trending.js *)

TrendingAlgorithmKeys == {"hackernews", "reddit", "velocity"}

\* the algorithm parameter of a trending request
TrendingAlgorithmParams ==
    {NoParam} \cup TrendingAlgorithmKeys \cup {"top", "bogus"}

\* the trendScore of the callback (trending.js 70-97; part_000 66-93 is the
\* same text)
trendScore(algorithm, points, submissions, ageInHours) ==
    CASE algorithm = "hackernews" ->
           OverGravity(points + submissions * 2, ageInHours + 2)
      [] algorithm = "reddit" ->
           LET order == MathLog10(Max(Abs(points), 1))
               sign == IF points > 0 THEN 1 ELSE -1
           IN  \* seconds / 45000 = ageInHours * 3600 / 45000, in
               \* hundred-thousandths
               Num(sign * order + ageInHours * 8000, 100000)
      [] algorithm = "velocity" ->
           \* pointsPerHour * (1 + submissionsPerHour)
           LET m == Max(1, ageInHours)
           IN  Div(points * (m + submissions), m * m)
      [] OTHER -> Div(points, Max(1, ageInHours))

trendingTimeThreshold(timeframe, now) ==
    CASE timeframe = "1h" -> now - HOUR
      [] timeframe = "6h" -> now - 6 * HOUR
      [] timeframe = "12h" -> now - 12 * HOUR
      [] timeframe = "7d" -> now - 7 * DAY
      [] timeframe = "30d" -> now - 30 * DAY
      [] OTHER -> now - DAY

\* whether the callback scores the child
trendingKeeps(user, timeThreshold) ==
    /\ ~(user.username = <<>> \/ user.createdAt = 0)
    /\ user.createdAt > timeThreshold
    /\ user.isActive # FALSE

trendingEntry(child, algorithm, now) ==
    [id |-> child.key,
     username |-> child.val.username,
     points |-> child.val.points,
     submissions |-> child.val.submissions,
     trendScore |-> toFixed4(trendScore(algorithm, child.val.points,
                        child.val.submissions,
                        (now - child.val.createdAt) \div HOUR)),
     createdAt |-> child.val.createdAt,
     lastActive |-> OrElse(child.val.lastActive, child.val.createdAt)]

trendingUsers(snapshot, algorithm, timeframe, now) ==
    LET kept == SelectSeq(children(snapshot),
                    LAMBDA c : trendingKeeps(c.val,
                                   trendingTimeThreshold(timeframe, now)))
    IN  [i \in DOMAIN kept |-> trendingEntry(kept[i], algorithm, now)]

\* trendingResponses with totalAnalyzed counted after the truncation
trendingResponses_TotalOfPage(snapshot, q, now) ==
    LET limit == Default(q.limit, Number(10))
        timeframe == DefaultString(q.timeframe, "24h")
        algorithm == DefaultString(q.algorithm, "hackernews")
        list == trendingUsers(snapshot, algorithm, timeframe, now)
        limitNum == NumOrElse(parseInt(limit), 10)
    IN  { Ok(withRank(slice(sorted, limitNum)), Len(slice(sorted, limitNum))) :
            sorted \in sort(list, byScoreDescending(
                          [i \in DOMAIN list |-> list[i].trendScore])) }

\* the responses of GET /api/trending
trendingResponses(snapshot, q, now) ==
    LET limit == Default(q.limit, Number(10))
        timeframe == DefaultString(q.timeframe, "24h")
        algorithm == DefaultString(q.algorithm, "hackernews")
        list == trendingUsers(snapshot, algorithm, timeframe, now)
        limitNum == NumOrElse(parseInt(limit), 10)
    IN  { Ok(withRank(slice(sorted, limitNum)), Len(list)) :
            sorted \in sort(list, byScoreDescending(
                          [i \in DOMAIN list |-> list[i].trendScore])) }

\* the response of the catch block
trendingCatch == Error(500, {})

TrendingHandler ==
    /\ Idle
    /\ \E a \in TrendingAlgorithmParams, l \in NumberParams,
          t \in TimeframeParams,
          outcome \in FetchOutcomes :
           LET q == [endpoint |-> "trending", algorithm |-> a, limit |-> l,
                     timeframe |-> t, minPoints |-> Absent]
           IN  Invoke(q, TRUE, trendingResponses(users, q, Now),
                      trendingCatch, outcome)

----------------------------------------------------------------------------
(* src/unnamed/part_000: the trending endpoint, an earlier text *)

part000TimeThreshold(timeframe, now) ==
    CASE timeframe = "1h" -> now - HOUR
      [] timeframe = "6h" -> now - 6 * HOUR
      [] timeframe = "12h" -> now - 12 * HOUR
      [] timeframe = "24h" -> now - DAY
      [] timeframe = "7d" -> now - 7 * DAY
      [] timeframe = "30d" -> now - 30 * DAY
      [] OTHER -> now - DAY

part000Keeps(user, timeThreshold) ==
    /\ user.createdAt # 0
    /\ user.createdAt > timeThreshold
    /\ user.isActive # FALSE

part000Entry(child, algorithm, now) ==
    [id |-> child.key,
     username |-> StringOrElse(child.val.username, Unknown),
     points |-> child.val.points,
     submissions |-> child.val.submissions,
     trendScore |-> toFixed4(trendScore(algorithm, child.val.points,
                        child.val.submissions,
                        (now - child.val.createdAt) \div HOUR)),
     createdAt |-> child.val.createdAt,
     lastActive |-> OrElse(child.val.lastActive, child.val.createdAt)]

part000Users(snapshot, algorithm, timeframe, now) ==
    LET kept == SelectSeq(children(snapshot),
                    LAMBDA c : part000Keeps(c.val,
                                   part000TimeThreshold(timeframe, now)))
    IN  [i \in DOMAIN kept |-> part000Entry(kept[i], algorithm, now)]

part000Responses(snapshot, q, now) ==
    LET limit == Default(q.limit, Number(10))
        timeframe == DefaultString(q.timeframe, "24h")
        algorithm == DefaultString(q.algorithm, "hackernews")
        list == part000Users(snapshot, algorithm, timeframe, now)
    IN  { Ok(withRank(slice(sorted, parseInt(limit))), Len(list)) :
            sorted \in sort(list, byScoreDescending(
                          [i \in DOMAIN list |-> list[i].trendScore])) }

\* the response of the catch block
part000Catch == Error(500, {})

Part000Handler ==
    /\ Idle
    /\ \E a \in TrendingAlgorithmParams, l \in NumberParams,
          t \in TimeframeParams,
          outcome \in FetchOutcomes :
           LET q == [endpoint |-> "part000", algorithm |-> a, limit |-> l,
                     timeframe |-> t, minPoints |-> Absent]
           IN  Invoke(q, TRUE, part000Responses(users, q, Now),
                      part000Catch, outcome)

----------------------------------------------------------------------------
(* src/unnamed/part_001, second module: the sort endpoint, a shorter text  *)

\* calculateScore(user, algo); now is the Date.now() it reads
calculateScore(user, algo, now) ==
    LET points == user.points
        submissions == user.submissions
        createdAt == OrElse(user.createdAt, now)
    IN  CASE algo = "new" -> Whole(-createdAt)
          [] algo = "top" -> Whole(points)
          [] algo = "active" -> Whole(submissions)
          [] algo = "efficient" ->
               \* points / Math.max(1, ageInDays)
               IF now - createdAt > DAY THEN Div(points * DAY, now - createdAt)
               ELSE Whole(points)
          [] algo = "recent" -> Whole(OrElse(user.lastActive, createdAt))
          [] OTHER ->
               LET ageInHours == (now - createdAt) \div HOUR
               IN  OverGravity(points + submissions * 2, ageInHours + 2)

part001Keeps(user) == user.isActive # FALSE

part001Entry(child, algorithm, now) ==
    [id |-> child.key,
     username |-> StringOrElse(child.val.username, Anonymous),
     points |-> child.val.points,
     submissions |-> child.val.submissions,
     score |-> toFixed4(calculateScore(child.val, algorithm, now))]

\* the users array; readings[i] is the Date.now() that calculateScore
\* reads for the i-th record it is called on
part001Users(snapshot, algorithm, readings) ==
    LET kept == SelectSeq(children(snapshot), LAMBDA c : part001Keeps(c.val))
    IN  [i \in DOMAIN kept |-> part001Entry(kept[i], algorithm, readings[i])]

\* the responses of the endpoint; timeframe and minPoints are read from the
\* query and never used
part001Responses(snapshot, q, now) ==
    LET algorithm == DefaultString(q.algorithm, "trending")
        limit == Default(q.limit, Number(20))
        limitNum == NumOrElse(parseInt(limit), 20)
    IN  UNION {
          LET list == part001Users(snapshot, algorithm, readings)
          IN  { Ok(withRank(slice(sorted, limitNum)), Len(list)) :
                  sorted \in sort(list, byScoreDescending(
                                [i \in DOMAIN list |-> list[i].score])) } :
          readings \in DateNowReadings(now, Len(snapshot)) }

\* the response of the catch block: res.json with no res.status, so the
\* status stays 200
part001Catch == Error(200, {})

Part001Handler ==
    /\ Idle
    /\ \E a \in SortAlgorithmParams, l \in NumberParams,
          m \in MinPointsParams,
          outcome \in FetchOutcomes :
           LET q == [endpoint |-> "part001", algorithm |-> a, limit |-> l,
                     timeframe |-> NoParam, minPoints |-> m]
           IN  Invoke(q, TRUE, part001Responses(users, q, Now),
                      part001Catch, outcome)

----------------------------------------------------------------------------
(* src/unnamed/part_002: handleTrending and handleLeaderboard *)

\* calculateTrendingScore(user, algorithm); now is the Date.now() it reads
calculateTrendingScore(user, algorithm, now) ==
    LET ageInHours == (now - OrElse(user.createdAt, now)) \div HOUR
        points == user.points
        submissions == user.submissions
    IN  CASE algorithm = "reddit" ->
               LET order == MathLog10(Max(Abs(points), 1))
                   sign == IF points > 0 THEN 1 ELSE -1
               IN  Num(sign * order + ageInHours * 8000, 100000)
          [] algorithm = "velocity" ->
               LET m == Max(1, ageInHours)
               IN  Div(points * (m + submissions), m * m)
          [] OTHER ->
               OverGravity(points + submissions * 2, ageInHours + 2)

handleTrendingTimeThreshold(timeframe, now) ==
    CASE timeframe = "1h" -> now - HOUR
      [] timeframe = "6h" -> now - 6 * HOUR
      [] timeframe = "12h" -> now - 12 * HOUR
      [] timeframe = "24h" -> now - DAY
      [] timeframe = "7d" -> now - 7 * DAY
      [] OTHER -> now - DAY

handleTrendingKeeps(user, timeThreshold) ==
    /\ user.createdAt # 0
    /\ user.createdAt > timeThreshold
    /\ user.isActive # FALSE

handleTrendingEntry(child, algorithm, now) ==
    [id |-> child.key,
     username |-> child.val.username,
     points |-> child.val.points,
     submissions |-> child.val.submissions,
     trendScore |-> toFixed4(calculateTrendingScore(child.val, algorithm, now)),
     createdAt |-> child.val.createdAt]

\* the users array; now is the Date.now() of handleTrending, readings[i]
\* the one that calculateTrendingScore reads for the i-th record it is
\* called on
handleTrendingUsers(snapshot, algorithm, timeframe, now, readings) ==
    LET kept == SelectSeq(children(snapshot),
                    LAMBDA c : handleTrendingKeeps(c.val,
                                   handleTrendingTimeThreshold(timeframe, now)))
    IN  [i \in DOMAIN kept |->
           handleTrendingEntry(kept[i], algorithm, readings[i])]

handleTrendingResponses(snapshot, q, now) ==
    LET limit == Default(q.limit, Number(10))
        timeframe == DefaultString(q.timeframe, "24h")
        algorithm == DefaultString(q.algorithm, "hackernews")
    IN  UNION {
          LET list == handleTrendingUsers(snapshot, algorithm, timeframe,
                                          now, readings)
          IN  { Ok(withRank(slice(sorted, parseInt(limit))), Len(list)) :
                  sorted \in sort(list, byScoreDescending(
                                [i \in DOMAIN list |-> list[i].trendScore])) } :
          readings \in DateNowReadings(now, Len(snapshot)) }

\* the response of the catch block of the main handler, which the rejected
\* promise of handleTrending and handleLeaderboard reaches
dispatcherCatch == Error(500, {})

handleTrending ==
    /\ Idle
    /\ \E a \in TrendingAlgorithmParams, l \in NumberParams,
          t \in TimeframeParams,
          outcome \in FetchOutcomes :
           LET q == [endpoint |-> "handleTrending", algorithm |-> a,
                     limit |-> l, timeframe |-> t, minPoints |-> Absent]
           IN  Invoke(q, TRUE, handleTrendingResponses(users, q, Now),
                      dispatcherCatch, outcome)

SortByParams == {NoParam, "points", "submissions", "recent", "bogus"}

handleLeaderboardKeeps(user) == user.isActive # FALSE

handleLeaderboardEntry(child) ==
    [id |-> child.key,
     username |-> child.val.username,
     points |-> child.val.points,
     submissions |-> child.val.submissions,
     createdAt |-> child.val.createdAt]

\* the comparator of users.sort; an absent createdAt is undefined, and a
\* difference with undefined is NaN, which SortCompare reads as +0
leaderboardComparator(list, sortBy) ==
    [i \in DOMAIN list |-> [j \in DOMAIN list |->
        LET a == list[i]
            b == list[j]
        IN  IF sortBy = "points" THEN Sgn(b.points - a.points)
            ELSE IF sortBy = "submissions" THEN Sgn(b.submissions - a.submissions)
            ELSE IF sortBy = "recent"
            THEN (IF a.createdAt = 0 \/ b.createdAt = 0 THEN 0
                  ELSE Sgn(b.createdAt - a.createdAt))
            ELSE Sgn(b.points - a.points)]]

handleLeaderboardResponses(snapshot, q) ==
    LET limit == Default(q.limit, Number(20))
        sortBy == DefaultString(q.algorithm, "points")
        kept == SelectSeq(children(snapshot),
                    LAMBDA c : handleLeaderboardKeeps(c.val))
        list == [i \in DOMAIN kept |-> handleLeaderboardEntry(kept[i])]
    IN  { Ok(withRank(slice(sorted, parseInt(limit))), Len(list)) :
            sorted \in sort(list, leaderboardComparator(list, sortBy)) }

\* the sortBy parameter is carried in the algorithm field of the request
handleLeaderboard ==
    /\ Idle
    /\ \E a \in SortByParams, l \in NumberParams,
          outcome \in FetchOutcomes :
           LET q == [endpoint |-> "handleLeaderboard", algorithm |-> a,
                     limit |-> l, timeframe |-> NoParam, minPoints |-> Absent]
           IN  Invoke(q, TRUE, handleLeaderboardResponses(users, q),
                      dispatcherCatch, outcome)

----------------------------------------------------------------------------
(* src/api/search.js.  Strings are sequences of characters.                *)

toLowerCaseChar(c) ==
    CASE c = "A" -> "a"
      [] c = "L" -> "l"
      [] c = "U" -> "u"
      [] OTHER -> c

toLowerCase(str) == [i \in DOMAIN str |-> toLowerCaseChar(str[i])]

\* str.includes(q)
includes(str, q) ==
    \E i \in 0..(Len(str) - Len(q)) : SubSeq(str, i + 1, i + Len(q)) = q

\* str.startsWith(q)
startsWith(str, q) == Len(q) <= Len(str) /\ SubSeq(str, 1, Len(q)) = q

RECURSIVE trimStart(_)
trimStart(str) ==
    IF str # <<>> /\ Head(str) = " " THEN trimStart(Tail(str)) ELSE str

RECURSIVE trimEnd(_)
trimEnd(str) ==
    IF str # <<>> /\ str[Len(str)] = " "
    THEN trimEnd(SubSeq(str, 1, Len(str) - 1)) ELSE str

\* str.trim()
trim(str) == trimEnd(trimStart(str))

\* the query of a search request; the empty string stands for no query
QueryParams ==
    { <<>>, <<"a">>, <<" ","a">>, <<"a","l">>, <<"A","L">>,
      <<"a","l","i","c","e">>, <<"b","o">>, <<"i","c">>, <<"5","0">> }

FieldParams == {NoParam, "username", "email", "points"}

\* Number.prototype.toString of a whole number n >= 0
RECURSIVE NumberToString(_)
NumberToString(n) ==
    LET digit == <<"0","1","2","3","4","5","6","7","8","9">>[(n % 10) + 1]
    IN  IF n < 10 THEN <<digit>> ELSE Append(NumberToString(n \div 10), digit)

\* user[field].toString(), or the empty string when user[field] is falsy
\* (absent, 0 or ''), which the handler skips; the records of the model
\* carry no email
fieldValueOf(user, field) ==
    CASE field = "username" -> user.username
      [] field = "points" ->
           IF user.points = 0 THEN <<>> ELSE NumberToString(user.points)
      [] OTHER -> <<>>

\* searchMatches comparing the characters as they are
searchMatches_CaseSensitive(user, field, query) ==
    /\ user.isActive # FALSE
    /\ fieldValueOf(user, field) # <<>>
    /\ includes(fieldValueOf(user, field), query)

\* the test of the snapshot.forEach callback: whether the child is a match
searchMatches(user, field, query) ==
    /\ user.isActive # FALSE
    /\ fieldValueOf(user, field) # <<>>
    /\ includes(toLowerCase(fieldValueOf(user, field)), toLowerCase(query))

\* the entry pushed for a match; [field]: fieldValue is the username when
\* field is 'username'
searchEntry(child, field) ==
    [id |-> child.key,
     username |-> StringOrElse(child.val.username, Unknown),
     points |-> child.val.points,
     submissions |-> child.val.submissions,
     lastActive |-> OrElse(child.val.lastActive, child.val.createdAt),
     createdAt |-> child.val.createdAt]

\* searchComparator with the substring matches by lastActive ascending
searchComparator_OldestFirst(list, field, query) ==
    [i \in DOMAIN list |-> [j \in DOMAIN list |->
        LET aValue == toLowerCase(fieldValueOf(list[i], field))
            bValue == toLowerCase(fieldValueOf(list[j], field))
            searchTerm == toLowerCase(query)
        IN  IF aValue = searchTerm THEN -1
            ELSE IF bValue = searchTerm THEN 1
            ELSE IF startsWith(aValue, searchTerm) THEN -1
            ELSE IF startsWith(bValue, searchTerm) THEN 1
            ELSE Sgn(list[i].lastActive - list[j].lastActive)]]

\* the relevance comparator of results.sort
searchComparator(list, field, query) ==
    [i \in DOMAIN list |-> [j \in DOMAIN list |->
        LET aValue == toLowerCase(fieldValueOf(list[i], field))
            bValue == toLowerCase(fieldValueOf(list[j], field))
            searchTerm == toLowerCase(query)
        IN  IF aValue = searchTerm THEN -1
            ELSE IF bValue = searchTerm THEN 1
            ELSE IF startsWith(aValue, searchTerm) THEN -1
            ELSE IF startsWith(bValue, searchTerm) THEN 1
            ELSE Sgn(list[j].lastActive - list[i].lastActive)]]

\* the responses of POST /api/search
searchResponses(snapshot, q) ==
    LET field == DefaultString(q.field, "username")
        limit == Default(q.limit, Number(20))
        kept == SelectSeq(children(snapshot),
                    LAMBDA c : searchMatches(c.val, field, q.query))
        results == [i \in DOMAIN kept |-> searchEntry(kept[i], field)]
        limitNum == NumOrElse(parseInt(limit), 20)
    IN  IF q.query = <<>> /\ q.field = NoParam /\ q.limit = Absent
        THEN { Error(400, {}) }    \* 'Request body is required'
        ELSE IF q.query = <<>> \/ Len(trim(q.query)) < 2
        THEN { Error(400, {}) }    \* 'Search query must be at least 2 characters'
        ELSE { Ok(slice(sorted, limitNum), Len(results)) :
                 sorted \in sort(results, searchComparator(results, field, q.query)) }

\* searchReads with the query validated after the fetch
searchReads_BodyOnly(q) ==
    ~(q.query = <<>> /\ q.field = NoParam /\ q.limit = Absent)

\* whether the handler reaches its fetch: the body and the query passed
\* the validation
searchReads(q) ==
    /\ ~(q.query = <<>> /\ q.field = NoParam /\ q.limit = Absent)
    /\ ~(q.query = <<>> \/ Len(trim(q.query)) < 2)

\* the response of the catch block
searchCatch == Error(500, {})

SearchHandler ==
    /\ Idle
    /\ \E query \in QueryParams, f \in FieldParams, l \in NumberParams,
          outcome \in FetchOutcomes :
           LET q == [endpoint |-> "search", query |-> query, field |-> f,
                     limit |-> l]
           IN  Invoke(q, searchReads(q), searchResponses(users, q),
                      searchCatch, outcome)

----------------------------------------------------------------------------
(* src/unnamed/part_002: the rate limiter and the main handler.            *)
(* requestCounts is the Map of the module, a function from the addresses   *)
(* that have an entry to their entries; clock is the Date.now() that       *)
(* checkRateLimit reads, counted in windows of 15 minutes since the        *)
(* process started; accepted[ip][k] is the number of requests of ip that   *)
(* checkRateLimit let through k windows ago (0: at the present reading).   *)

\* the addresses requests come from
ClientIPs == {"198.51.100.7"}

\* windowMs of checkRateLimit, 15 minutes
windowMs == 1

\* the count at which checkRateLimit refuses
RateLimit == 100

\* the forEach of checkRateLimit with an entry deleted as soon as its age
\* reaches the window
purged_AtWindow(counts, now) ==
    LET windowStart == now - windowMs
        kept == { key \in DOMAIN counts :
                    ~(counts[key].timestamp <= windowStart) }
    IN  [key \in kept |-> counts[key]]

\* requestCounts after the forEach of checkRateLimit deleted the entries
\* older than the window
purged(counts, now) ==
    LET windowStart == now - windowMs
        kept == { key \in DOMAIN counts :
                    ~(counts[key].timestamp < windowStart) }
    IN  [key \in kept |-> counts[key]]

\* userData of checkRateLimit: requestCounts.get(ip) || { count: 0, ... }
userDataOf(counts, ip, now) ==
    IF ip \in DOMAIN purged(counts, now)
    THEN purged(counts, now)[ip]
    ELSE [count |-> 0, timestamp |-> now]

\* checkRateLimit refusing from the second request of an address on
checkRateLimit_AfterOne(counts, ip, now) ==
    ~(userDataOf(counts, ip, now).count >= 1)

\* the value checkRateLimit(ip) returns
checkRateLimit(counts, ip, now) ==
    ~(userDataOf(counts, ip, now).count >= RateLimit)

\* requestCounts when checkRateLimit(ip) has returned
checkRateLimitCounts(counts, ip, now) ==
    LET left == purged(counts, now)
        userData == userDataOf(counts, ip, now)
    IN  IF ~checkRateLimit(counts, ip, now) THEN left
        ELSE [key \in DOMAIN left \cup {ip} |->
                IF key = ip
                THEN [count |-> userData.count + 1, timestamp |-> now]
                ELSE left[key]]

\* the 429 response of the main handler
TooManyRequests == Error(429, {})

\* the paths of the requests: two of the routes of the switch
Part002Paths == {"/trending", "/leaderboard"}

\* the responses of the route of q when its fetch resolves
part002RouteResponses(snapshot, q, now) ==
    IF q.path = "/trending" THEN handleTrendingResponses(snapshot, q, now)
    ELSE handleLeaderboardResponses(snapshot, q)

\* the main handler on a GET request: the rate limiter, then the route
Part002Handler ==
    /\ Idle
    /\ \E ip \in ClientIPs, path \in Part002Paths,
          outcome \in FetchOutcomes :
           LET q == [endpoint |-> "part002", path |-> path, ip |-> ip,
                     algorithm |-> NoParam, limit |-> Absent,
                     timeframe |-> NoParam, minPoints |-> Absent]
               allowed == checkRateLimit(requestCounts, ip, clock)
           IN  /\ req' = q
               /\ requestCounts' = checkRateLimitCounts(requestCounts, ip, clock)
               /\ accepted' = IF allowed
                              THEN [accepted EXCEPT ![ip][0] = @ + 1]
                              ELSE accepted
               /\ fetch' = IF allowed THEN outcome ELSE "none"
               /\ res' \in IF ~allowed THEN {TooManyRequests}
                           ELSE IF outcome = "failed" THEN {dispatcherCatch}
                           ELSE part002RouteResponses(users, q, Now)
               /\ UNCHANGED <<users, clock, regVars>>

\* a window of 15 minutes passes between two requests
Tick ==
    /\ Idle
    /\ clock < MaxTime
    /\ clock' = clock + 1
    /\ accepted' = [ip \in ClientIPs |->
                      [k \in 0..windowMs |->
                         IF k = 0 THEN 0 ELSE accepted[ip][k - 1]]]
    /\ UNCHANGED <<users, req, res, fetch, requestCounts, regVars>>

\* the process has started: the Map is empty
LimiterInit ==
    /\ requestCounts = [key \in {} |-> [count |-> 0, timestamp |-> 0]]
    /\ clock = 0
    /\ accepted = [ip \in ClientIPs |-> [k \in 0..windowMs |-> 0]]

----------------------------------------------------------------------------
(* Registration: src/api/register.js (both of its texts), handleRegister   *)
(* of src/unnamed/part_002 and src/unnamed/part_006.  reg[p] is the        *)
(* invocation p of a registration handler: pc is the await it stands at,   *)
(* res the response it sent.  Every await is a step of its own, so that    *)
(* the invocations interleave as the event loop lets them.  A record that  *)
(* a handler writes is appended to users with its key as id; an absent     *)
(* username_lower is the empty string.                                     *)

\* the invocations
Procs == 1..MaxRegistrations

RegHandlers == {"register", "handleRegister", "part006"}

\* the usernames of the requests: Ali, ali and the too short al
RegUsernames == {<<"A","l","i">>, <<"a","l","i">>, <<"a","l">>}

\* the email addresses of the requests
Emails == {"ali@example.org", "al@example.org"}

\* the outcomes of an awaited call of the Firebase SDK
AwaitOutcomes == {"ok", "failed"}

\* the key the invocation p gives its record: db.ref('users').push().key,
\* the user_<time>_<random> strings, the uid of auth.createUser
UserId(p) == <<"user", p>>

\* the fallback_<time> userId of the outer catch of part_006
FallbackId(p) == <<"fallback", p>>

NoId == <<"none", 0>>

RegResponse(status, success, userId) ==
    [status |-> status, success |-> success, userId |-> userId]

NoRegistration ==
    [handler |-> "none", pc |-> "idle", username |-> <<>>, email |-> "",
     res |-> RegResponse(0, FALSE, NoId)]

\* userData of the handlers
userData(userId, username, usernameLower, now) ==
    [id |-> userId, username |-> username, username_lower |-> usernameLower,
     points |-> 10, submissions |-> 0, createdAt |-> now, lastActive |-> now,
     isActive |-> TRUE]

\* orderByChild('username_lower').equalTo(usernameLower) ... exists()
usernameLowerExists(snapshot, usernameLower) ==
    \E i \in DOMAIN snapshot : snapshot[i].username_lower = usernameLower

\* orderByChild('username').equalTo(username) ... exists()
usernameExists(snapshot, username) ==
    \E i \in DOMAIN snapshot : snapshot[i].username = username

\* the invocation p goes on at the await pc
GoTo(p, pc) == reg' = [reg EXCEPT ![p].pc = pc]

\* the invocation p sends its response
Respond(p, response) ==
    reg' = [reg EXCEPT ![p].pc = "done", ![p].res = response]

\* a POST request reaches the invocation p of handler h
Arrives(p, h, username, email) ==
    [handler |-> h, pc |-> "start", username |-> username, email |-> email,
     res |-> RegResponse(0, FALSE, NoId)]

(* src/api/register.js *)

\* the validation of the body, up to the await of the duplicate check
RegisterValidate ==
    \E p \in Procs, username \in RegUsernames :
        /\ reg[p].pc = "idle"
        /\ reg' = [reg EXCEPT ![p] =
                     IF Len(username) < 3
                     THEN [Arrives(p, "register", username, "") EXCEPT
                             !.pc = "done",
                             !.res = RegResponse(400, FALSE, NoId)]
                     ELSE [Arrives(p, "register", username, "") EXCEPT
                             !.pc = "check"]]
        /\ UNCHANGED <<users, req, res, fetch, limiterVars, auth, profiles, db>>

\* the duplicate check resolves or rejects
RegisterCheck ==
    \E p \in Procs, outcome \in AwaitOutcomes :
        /\ reg[p].handler = "register"
        /\ reg[p].pc = "check"
        /\ IF outcome = "failed"
           THEN Respond(p, RegResponse(500, FALSE, NoId))
           ELSE IF usernameLowerExists(users, toLowerCase(reg[p].username))
           THEN Respond(p, RegResponse(409, FALSE, NoId))
           ELSE GoTo(p, "save")
        /\ UNCHANGED <<users, req, res, fetch, limiterVars, auth, profiles, db>>

\* the set of users/{userId} resolves or rejects, and the response is sent
RegisterSave ==
    \E p \in Procs, outcome \in AwaitOutcomes :
        /\ reg[p].handler = "register"
        /\ reg[p].pc = "save"
        /\ IF outcome = "failed"
           THEN /\ Respond(p, RegResponse(500, FALSE, NoId))
                /\ UNCHANGED users
           ELSE /\ users' = Append(users,
                               userData(UserId(p), reg[p].username,
                                        toLowerCase(reg[p].username), Now))
                /\ Respond(p, RegResponse(201, TRUE, UserId(p)))
        /\ UNCHANGED <<req, res, fetch, limiterVars, auth, profiles, db>>

(* src/unnamed/part_002: handleRegister *)

handleRegisterValidate ==
    \E p \in Procs, username \in RegUsernames, email \in Emails :
        /\ reg[p].pc = "idle"
        /\ reg' = [reg EXCEPT ![p] =
                     IF Len(username) < 3
                     THEN [Arrives(p, "handleRegister", username, email) EXCEPT
                             !.pc = "done",
                             !.res = RegResponse(400, FALSE, NoId)]
                     ELSE [Arrives(p, "handleRegister", username, email) EXCEPT
                             !.pc = "check"]]
        /\ UNCHANGED <<users, req, res, fetch, limiterVars, auth, profiles, db>>

\* the duplicate check, on the username as it was sent
handleRegisterCheck ==
    \E p \in Procs, outcome \in AwaitOutcomes :
        /\ reg[p].handler = "handleRegister"
        /\ reg[p].pc = "check"
        /\ IF outcome = "failed"
           THEN Respond(p, RegResponse(500, FALSE, NoId))
           ELSE IF usernameExists(users, reg[p].username)
           THEN Respond(p, RegResponse(409, FALSE, NoId))
           ELSE GoTo(p, "createUser")
        /\ UNCHANGED <<users, req, res, fetch, limiterVars, auth, profiles, db>>

\* auth.createUser: the account is created, or the email is registered
\* already, or the call fails otherwise
handleRegisterCreateUser ==
    \E p \in Procs, outcome \in AwaitOutcomes :
        /\ reg[p].handler = "handleRegister"
        /\ reg[p].pc = "createUser"
        /\ IF \E a \in auth : a.email = reg[p].email
           THEN /\ Respond(p, RegResponse(409, FALSE, NoId))
                /\ UNCHANGED auth
           ELSE IF outcome = "failed"
           THEN /\ Respond(p, RegResponse(500, FALSE, NoId))
                /\ UNCHANGED auth
           ELSE /\ auth' = auth \cup {[uid |-> UserId(p), email |-> reg[p].email]}
                /\ GoTo(p, "createCustomToken")
        /\ UNCHANGED <<users, req, res, fetch, limiterVars, profiles, db>>

\* auth.createCustomToken
handleRegisterCreateCustomToken ==
    \E p \in Procs, outcome \in AwaitOutcomes :
        /\ reg[p].handler = "handleRegister"
        /\ reg[p].pc = "createCustomToken"
        /\ IF outcome = "failed"
           THEN Respond(p, RegResponse(500, FALSE, NoId))
           ELSE GoTo(p, "saveUser")
        /\ UNCHANGED <<users, req, res, fetch, limiterVars, auth, profiles, db>>

\* the set of users/{uid}
handleRegisterSaveUser ==
    \E p \in Procs, outcome \in AwaitOutcomes :
        /\ reg[p].handler = "handleRegister"
        /\ reg[p].pc = "saveUser"
        /\ IF outcome = "failed"
           THEN /\ Respond(p, RegResponse(500, FALSE, NoId))
                /\ UNCHANGED users
           ELSE /\ users' = Append(users,
                               userData(UserId(p), reg[p].username, <<>>, Now))
                /\ GoTo(p, "saveProfile")
        /\ UNCHANGED <<req, res, fetch, limiterVars, auth, profiles, db>>

\* the set of profiles/{uid}, and the response
handleRegisterSaveProfile ==
    \E p \in Procs, outcome \in AwaitOutcomes :
        /\ reg[p].handler = "handleRegister"
        /\ reg[p].pc = "saveProfile"
        /\ IF outcome = "failed"
           THEN /\ Respond(p, RegResponse(500, FALSE, NoId))
                /\ UNCHANGED profiles
           ELSE /\ profiles' = profiles \cup {UserId(p)}
                /\ Respond(p, RegResponse(201, TRUE, UserId(p)))
        /\ UNCHANGED <<users, req, res, fetch, limiterVars, auth, db>>

(* src/unnamed/part_006.  mockUsers, which no request reads, is left out. *)

\* the request is parsed: a username that is no string makes toLowerCase
\* throw, and the outer catch answers; without db the handler answers at
\* once
Part006Parse ==
    \E p \in Procs, username \in RegUsernames, isString \in BOOLEAN :
        /\ reg[p].pc = "idle"
        /\ reg' = [reg EXCEPT ![p] =
                     IF ~isString
                     THEN [Arrives(p, "part006", <<>>, "") EXCEPT
                             !.pc = "done",
                             !.res = RegResponse(200, TRUE, FallbackId(p))]
                     ELSE IF ~db
                     THEN [Arrives(p, "part006", username, "") EXCEPT
                             !.pc = "done",
                             !.res = RegResponse(200, TRUE, UserId(p))]
                     ELSE [Arrives(p, "part006", username, "") EXCEPT
                             !.pc = "check"]]
        /\ UNCHANGED <<users, req, res, fetch, limiterVars, auth, profiles, db>>

\* the duplicate check: a taken username and a rejected promise both go on
\* to the success response
Part006Check ==
    \E p \in Procs, outcome \in AwaitOutcomes :
        /\ reg[p].handler = "part006"
        /\ reg[p].pc = "check"
        /\ IF outcome = "failed"
              \/ usernameLowerExists(users, toLowerCase(reg[p].username))
           THEN Respond(p, RegResponse(200, TRUE, UserId(p)))
           ELSE GoTo(p, "save")
        /\ UNCHANGED <<users, req, res, fetch, limiterVars, auth, profiles, db>>

\* the set of users/{userId}, whose failure is swallowed, and the response
Part006Save ==
    \E p \in Procs, outcome \in AwaitOutcomes :
        /\ reg[p].handler = "part006"
        /\ reg[p].pc = "save"
        /\ users' = IF outcome = "failed" THEN users
                    ELSE Append(users,
                             userData(UserId(p), reg[p].username,
                                      toLowerCase(reg[p].username), Now))
        /\ Respond(p, RegResponse(200, TRUE, UserId(p)))
        /\ UNCHANGED <<req, res, fetch, limiterVars, auth, profiles, db>>

\* no registration request has arrived
RegistrationIdle ==
    /\ reg = [p \in Procs |-> NoRegistration]
    /\ auth = {}
    /\ profiles = {}

----------------------------------------------------------------------------

Init ==
    /\ users \in Stores
    /\ req = NoRequest
    /\ res = NoResponse
    /\ fetch = "none"
    /\ LimiterInit
    /\ RegistrationIdle
    /\ db = TRUE

Next ==
    \/ SortHandler
    \/ TrendingHandler
    \/ Part000Handler
    \/ Part001Handler
    \/ handleTrending
    \/ handleLeaderboard
    \/ SearchHandler
    \/ Complete

Spec == Init /\ [][Next]_vars

(* The part_002 API behind its rate limiter, on the store of the examples  *)
(* of the specification: alice, then bob.                                  *)
RateInit ==
    /\ users = <<User(<<"a","l","i","c","e">>, 5, 1, Now - 1 * HOUR, 0, TRUE),
                 User(<<"b","o","b">>, 50, 0, Now - 2 * HOUR, Now - 1 * HOUR, TRUE)>>
    /\ req = NoRequest
    /\ res = NoResponse
    /\ fetch = "none"
    /\ LimiterInit
    /\ RegistrationIdle
    /\ db = TRUE

RateNext ==
    \/ Part002Handler
    \/ Tick
    \/ Complete

RateSpec == RateInit /\ [][RateNext]_vars

(* The registration handlers on an empty 'users' table; part_006 runs with *)
(* or without its db.                                                      *)
RegInit ==
    /\ users = <<>>
    /\ req = NoRequest
    /\ res = NoResponse
    /\ fetch = "none"
    /\ LimiterInit
    /\ RegistrationIdle
    /\ db \in BOOLEAN

RegNext ==
    \/ RegisterValidate
    \/ RegisterCheck
    \/ RegisterSave
    \/ handleRegisterValidate
    \/ handleRegisterCheck
    \/ handleRegisterCreateUser
    \/ handleRegisterCreateCustomToken
    \/ handleRegisterSaveUser
    \/ handleRegisterSaveProfile
    \/ Part006Parse
    \/ Part006Check
    \/ Part006Save

RegSpec == RegInit /\ [][RegNext]_vars

----------------------------------------------------------------------------
(* Vocabulary of the properties *)

Answered == res # NoResponse

\* the response carries a list (it is no error body)
Listed == Answered /\ res.status = 200 /\ res.body = "list"

\* endpoints that score the records
ScoringEndpoints == {"sort", "trending", "part000", "part001", "handleTrending"}
TrendingEndpoints == {"trending", "part000", "handleTrending"}
RankingEndpoints == ScoringEndpoints \cup {"handleLeaderboard"}

\* the score of an entry of the response
EntryScore(e) ==
    IF req.endpoint \in TrendingEndpoints THEN e.trendScore ELSE e.score

\* x >= y on stored scores: false when either is NaN
AtLeast(x, y) ==
    x.k # "nan" /\ y.k # "nan" /\ SubSign(x, y) \in {0, 1, 2}

\* the algorithm the request asks for, after the endpoint's default
AskedAlgorithm ==
    DefaultString(req.algorithm,
        IF req.endpoint \in TrendingEndpoints THEN "hackernews" ELSE "trending")

\* the timeframe the request asks for, after the endpoint's default
AskedTimeframe ==
    DefaultString(req.timeframe,
        IF req.endpoint \in TrendingEndpoints THEN "24h" ELSE "all")

\* the default limit of the endpoint of the request
EndpointDefaultLimit ==
    IF req.endpoint \in TrendingEndpoints THEN 10 ELSE 20

\* the tests of the request's endpoint other than its timeframe test
PassesOtherFilters(user) ==
    /\ user.isActive # FALSE
    /\ req.endpoint = "trending" => user.username # <<>>
    /\ req.endpoint = "sort" =>
           ~LessThan(user.points, parseInt(Default(req.minPoints, Number(0))))

\* the timeframe values an endpoint recognizes
Recognized ==
    CASE req.endpoint = "sort" -> {"today", "week", "month", "all"}
      [] req.endpoint \in {"trending", "part000"} ->
           {"1h", "6h", "12h", "24h", "7d", "30d"}
      [] req.endpoint = "handleTrending" -> {"1h", "6h", "12h", "24h", "7d"}
      [] OTHER -> {}

\* the duration a timeframe value names
Duration(timeframe) ==
    CASE timeframe = "1h" -> HOUR
      [] timeframe = "6h" -> 6 * HOUR
      [] timeframe = "12h" -> 12 * HOUR
      [] timeframe \in {"24h", "today"} -> DAY
      [] timeframe \in {"7d", "week"} -> 7 * DAY
      [] timeframe \in {"30d", "month"} -> 30 * DAY

NamedTimeframes ==
    {"1h", "6h", "12h", "24h", "7d", "30d", "today", "week", "month"}

\* endpoints that read the timeframe parameter
TimeframeEndpoints == {"sort"} \cup TrendingEndpoints

----------------------------------------------------------------------------
(* C1: no record whose isActive is explicitly false appears in the list of *)
(* any ranking endpoint or of search, whatever its score or match.         *)
C1_NoInactiveInOutput ==
    Listed => \A i \in DOMAIN res.list : users[res.list[i].id].isActive # FALSE

\* an inactive record that outscores every listed entry is in the store and
\* the list is not empty
C1_Witness ==
    /\ Listed
    /\ req.endpoint = "sort" /\ AskedAlgorithm = "top"
    /\ res.list # <<>>
    /\ \E i \in DOMAIN users :
          /\ users[i].isActive = FALSE
          /\ \A j \in DOMAIN res.list : users[i].points >= res.list[j].points

----------------------------------------------------------------------------
(* C2: the list a ranking endpoint returns is sorted non-increasing by     *)
(* score: each entry's score is >= the score of the entry after it.        *)
C2_SortedByScore ==
    (Listed /\ req.endpoint \in ScoringEndpoints) =>
        \A i \in 1..(Len(res.list) - 1) :
            AtLeast(EntryScore(res.list[i]), EntryScore(res.list[i + 1]))

----------------------------------------------------------------------------
(* C3 as stated: whatever the limit parameter, the reported total is >=    *)
(* the length of the list and the length of the list is <= the requested   *)
(* limit.                                                                  *)
C3_LengthWithinAnyLimit ==
    Listed =>
        /\ res.total >= Len(res.list)
        /\ req.limit.t = "number" => Len(res.list) <= req.limit.v

(* C3 amended: the reported total is >= the length of the list whatever    *)
(* the limit parameter, and the length of the list is <= the requested     *)
(* limit whenever that limit is a positive integer.                        *)
C3_LengthWithinPositiveLimit ==
    Listed =>
        /\ res.total >= Len(res.list)
        /\ (req.limit.t = "number" /\ req.limit.v >= 1) =>
               Len(res.list) <= req.limit.v

\* a positive limit below the number of matches has truncated the list
C3_Witness ==
    /\ Listed
    /\ req.limit = Number(1)
    /\ res.total = 2
    /\ Len(res.list) = 1

----------------------------------------------------------------------------
(* C4: a limit that is not a positive integer (zero, negative, not a       *)
(* number) makes every ranking and search endpoint fall back to its        *)
(* default limit: the request does not error and the list is the first     *)
(* default-many entries of the sorted list.                                *)
C4_BadLimitFallsBackToDefault ==
    (/\ Answered
     /\ fetch # "failed"
     /\ req.limit.t = "text" \/ (req.limit.t = "number" /\ req.limit.v <= 0)
     /\ res.status # 400) =>
        /\ res.status = 200
        /\ Len(res.list) = Min(EndpointDefaultLimit, res.total)

----------------------------------------------------------------------------
(* C5: in every ranking response the rank values of the entries are        *)
(* exactly 1, 2, ..., len(result) in list order.                           *)
C5_RanksAreOneToLen ==
    (Listed /\ req.endpoint \in RankingEndpoints) =>
        \A i \in DOMAIN res.list : res.list[i].rank = i

C5_Witness ==
    /\ Listed
    /\ req.endpoint \in RankingEndpoints
    /\ Len(res.list) >= 2

----------------------------------------------------------------------------
(* C6: a ranking request whose algorithm key is not a known algorithm name *)
(* fails with status 400 and lists the known algorithms; no record is      *)
(* scored and no list is returned.                                         *)
C6_UnknownAlgorithmRejected ==
    (/\ Answered
     /\ fetch # "failed"
     /\ req.endpoint \in ScoringEndpoints
     /\ req.algorithm # NoParam
     /\ req.algorithm \notin SortAlgorithmKeys \cup TrendingAlgorithmKeys) =>
        /\ res.status = 400
        /\ res.body = "error"
        /\ res.available # {}

----------------------------------------------------------------------------
----------------------------------------------------------------------------
(* C8: for every named timeframe (1h, 6h, 12h, 24h, 7d, 30d, today, week,  *)
(* month) on every ranking endpoint the cutoff is now minus the named      *)
(* duration: a record that passes the other tests is dropped exactly when  *)
(* it has no createdAt or its createdAt is strictly less than the cutoff,   *)
(* and a record whose createdAt equals the cutoff is kept.                 *)
C8_NamedTimeframeCutoff ==
    (/\ Listed
     /\ req.endpoint \in TimeframeEndpoints
     /\ req.timeframe \in NamedTimeframes) =>
        res.total = Cardinality({ i \in DOMAIN users :
            /\ PassesOtherFilters(users[i])
            /\ users[i].createdAt # 0
            /\ users[i].createdAt >= Now - Duration(req.timeframe) })

----------------------------------------------------------------------------
(* C9: when minPoints is given to a ranking endpoint that accepts it,      *)
(* every record whose points is less than minPoints is dropped and every   *)
(* other record that passed the earlier tests is kept, so the total counts *)
(* exactly those with points >= minPoints.                                 *)
C9_MinPointsFilters ==
    (/\ Listed
     /\ req.endpoint \in {"sort", "part001"}
     /\ req.minPoints.t = "number") =>
        /\ \A i \in DOMAIN res.list : res.list[i].points >= req.minPoints.v
        /\ res.total = Cardinality({ i \in DOMAIN users :
              /\ users[i].isActive # FALSE
              /\ req.endpoint = "sort" =>
                     sortKeeps(users[i], AskedTimeframe,
                         sortTimeThreshold(AskedTimeframe, Now), Number(0))
              /\ users[i].points >= req.minPoints.v })

----------------------------------------------------------------------------
----------------------------------------------------------------------------
(* Full-precision scores *)

\* the sign of n1/d1 - n2/d2 for n1, n2 >= 0 and d1, d2 > 0, by the
\* expansion of both as continued fractions
RECURSIVE CompareFraction(_, _, _, _)
CompareFraction(n1, d1, n2, d2) ==
    LET q1 == n1 \div d1
        q2 == n2 \div d2
        r1 == n1 % d1
        r2 == n2 % d2
    IN  IF q1 # q2 THEN Sgn(q1 - q2)
        ELSE IF r1 = 0 \/ r2 = 0 THEN Sgn(r1 - r2)
        ELSE CompareFraction(d2, r2, d1, r1)

\* x > y for two finite numbers
Exceeds(x, y) ==
    IF x.n >= 0 /\ y.n >= 0 THEN CompareFraction(x.n, x.d, y.n, y.d) = 1
    ELSE IF x.n < 0 /\ y.n < 0 THEN CompareFraction(-y.n, y.d, -x.n, x.d) = 1
    ELSE x.n >= 0

\* the score the handler of the request computed for the record of the
\* entry e, before toFixed(4)
FullScore(e) ==
    LET user == users[e.id]
    IN  CASE req.endpoint = "sort" -> SORT_ALGORITHMS(AskedAlgorithm, user, Now)
          [] req.endpoint = "part001" -> calculateScore(user, AskedAlgorithm, Now)
          [] req.endpoint \in {"trending", "part000"} ->
               trendScore(AskedAlgorithm, user.points, user.submissions,
                          (Now - user.createdAt) \div HOUR)
          [] req.endpoint = "handleTrending" ->
               calculateTrendingScore(user, AskedAlgorithm, Now)

----------------------------------------------------------------------------
(* C11: ranking sorts by the full-precision score and rounds it for the    *)
(* output only: of two listed records whose full-precision scores differ,  *)
(* the one with the larger full-precision score comes first, also when     *)
(* both round to the same 4 decimal places.                                *)
C11_SortedByFullPrecision ==
    (Listed /\ req.endpoint \in ScoringEndpoints) =>
        \A i, j \in DOMAIN res.list :
            (/\ i < j
             /\ FullScore(res.list[i]).k = "num"
             /\ FullScore(res.list[j]).k = "num") =>
                ~Exceeds(FullScore(res.list[j]), FullScore(res.list[i]))

----------------------------------------------------------------------------
----------------------------------------------------------------------------
\* the two records of the examples of the specification, alice then bob
ExampleStore ==
    /\ Len(users) = 2
    /\ users[1] = User(<<"a","l","i","c","e">>, 5, 1, Now - 1 * HOUR, 0, TRUE)
    /\ users[2] = User(<<"b","o","b">>, 50, 0, Now - 2 * HOUR, Now - 1 * HOUR, TRUE)

\* the sort endpoints: sort.js and the shorter text of part_001
SortEndpoints == {"sort", "part001"}

(* C13: with algorithm=top the score of every listed entry is the points   *)
(* of its record (0 when it has none) and the list is ordered by points,   *)
(* non-increasing; the two-record example (alice 5 points, bob 50 points)  *)
(* gives bob at rank 1 with score 50 and alice at rank 2 with score 5.     *)
C13_TopRanksByPoints ==
    (/\ Listed
     /\ req.endpoint \in SortEndpoints
     /\ AskedAlgorithm = "top") =>
        /\ \A i \in DOMAIN res.list :
              res.list[i].score =
                  [k |-> "num", v |-> users[res.list[i].id].points * 10000]
        /\ \A i, j \in DOMAIN res.list :
              i < j => users[res.list[i].id].points >= users[res.list[j].id].points
        /\ (ExampleStore /\ Len(res.list) = 2) =>
              /\ res.list[1].rank = 1 /\ res.list[1].id = 2
              /\ res.list[1].score = [k |-> "num", v |-> 50 * 10000]
              /\ res.list[2].rank = 2 /\ res.list[2].id = 1
              /\ res.list[2].score = [k |-> "num", v |-> 5 * 10000]

\* the example: algorithm=top on alice and bob, both listed
C13_Witness ==
    /\ Listed
    /\ req.endpoint \in SortEndpoints
    /\ AskedAlgorithm = "top"
    /\ ExampleStore
    /\ Len(res.list) = 2
    /\ res.list[1].username = <<"b","o","b">>

----------------------------------------------------------------------------
(* C14: with algorithm=new the list is ordered newest first: of two listed *)
(* records that both have a createdAt, the one created later comes before  *)
(* the one created earlier.                                                *)
C14_NewRanksNewestFirst ==
    (/\ Listed
     /\ req.endpoint \in SortEndpoints
     /\ AskedAlgorithm = "new") =>
        \A i, j \in DOMAIN res.list :
            (/\ i < j
             /\ users[res.list[i].id].createdAt # 0
             /\ users[res.list[j].id].createdAt # 0) =>
                users[res.list[i].id].createdAt >= users[res.list[j].id].createdAt

----------------------------------------------------------------------------
(* C15: a search request whose query is missing, or shorter than 2         *)
(* characters once trimmed, fails with status 400, and it fails before the *)
(* record store is read.                                                   *)
C15_ShortQueryRejectedBeforeFetch ==
    (/\ Answered
     /\ req.endpoint = "search"
     /\ (req.query = <<>> \/ Len(trim(req.query)) < 2)) =>
        /\ res.status = 400
        /\ res.success = FALSE
        /\ fetch = "none"

\* a query of two characters, one of them a space, has been rejected
C15_Witness ==
    /\ Answered
    /\ req.endpoint = "search"
    /\ Len(req.query) = 2
    /\ Len(trim(req.query)) = 1
    /\ res.status = 400
    /\ fetch = "none"

----------------------------------------------------------------------------
(* Vocabulary of the search properties *)

\* the field the search request names, after the default
AskedField == DefaultString(req.field, "username")

\* the string str contains the string q, letter case aside
ContainsIgnoringCase(str, q) ==
    \E k \in 0..(Len(str) - Len(q)) :
        \A m \in 1..Len(q) : toLowerCaseChar(str[k + m]) = toLowerCaseChar(q[m])

\* the record is a match of the search request
IsMatch(user) ==
    /\ user.isActive # FALSE
    /\ fieldValueOf(user, AskedField) # <<>>
    /\ ContainsIgnoringCase(fieldValueOf(user, AskedField), req.query)

----------------------------------------------------------------------------
\* the field of the record equals the query, letter case aside
IsExactMatch(user) ==
    /\ IsMatch(user)
    /\ Len(fieldValueOf(user, AskedField)) = Len(req.query)

\* the field of the record starts with the query, letter case aside
IsPrefixMatch(user) ==
    /\ IsMatch(user)
    /\ \A m \in 1..Len(req.query) :
          toLowerCaseChar(fieldValueOf(user, AskedField)[m])
              = toLowerCaseChar(req.query[m])

(* C17: for every record set and every order of the records, if the query  *)
(* equals, letter case aside, the full value of the field of some active   *)
(* record, then the entry at position 0 of the results is a record whose   *)
(* field equals the query, ahead of every prefix and substring match.      *)
C17_ExactMatchAtPositionZero ==
    (/\ Listed
     /\ req.endpoint = "search"
     /\ \E i \in DOMAIN users : IsExactMatch(users[i])) =>
        /\ res.list # <<>>
        /\ IsExactMatch(users[res.list[1].id])

----------------------------------------------------------------------------
\* lastActive of the record, falling back to createdAt, then 0
Recency(user) == OrElse(user.lastActive, user.createdAt)

(* C18: search results are ordered by relevance tier for every order of    *)
(* the matches: every exact match precedes every match that is not exact,  *)
(* every prefix match precedes every match that is neither exact nor       *)
(* prefix, and the remaining substring matches are ordered by lastActive   *)
(* descending (falling back to createdAt, then 0).                         *)
C18_OrderedByRelevanceTier ==
    (Listed /\ req.endpoint = "search") =>
        \A i, j \in DOMAIN res.list :
            i < j =>
                LET a == users[res.list[i].id]
                    b == users[res.list[j].id]
                IN  /\ IsExactMatch(b) => IsExactMatch(a)
                    /\ IsPrefixMatch(b) => IsPrefixMatch(a)
                    /\ (~IsPrefixMatch(a) /\ ~IsPrefixMatch(b)) =>
                           Recency(a) >= Recency(b)

\* two substring matches are listed in the reverse of their snapshot order:
\* the one active later comes first
C18_Witness ==
    /\ Listed
    /\ req.endpoint = "search"
    /\ \E i, j \in DOMAIN res.list :
          /\ i < j
          /\ res.list[i].id > res.list[j].id
          /\ ~IsPrefixMatch(users[res.list[i].id])
          /\ ~IsPrefixMatch(users[res.list[j].id])
          /\ Recency(users[res.list[i].id]) > Recency(users[res.list[j].id])

----------------------------------------------------------------------------
\* the record passes every filter of the endpoint of the request
PassesAllFilters(user) ==
    CASE req.endpoint = "sort" ->
           sortKeeps(user, AskedTimeframe, sortTimeThreshold(AskedTimeframe, Now),
                     Default(req.minPoints, Number(0)))
      [] req.endpoint = "trending" ->
           trendingKeeps(user, trendingTimeThreshold(AskedTimeframe, Now))
      [] req.endpoint = "part000" ->
           part000Keeps(user, part000TimeThreshold(AskedTimeframe, Now))
      [] req.endpoint = "part001" -> part001Keeps(user)
      [] req.endpoint = "handleTrending" ->
           handleTrendingKeeps(user, handleTrendingTimeThreshold(AskedTimeframe, Now))
      [] req.endpoint = "handleLeaderboard" -> handleLeaderboardKeeps(user)
      [] req.endpoint = "search" -> IsMatch(user)

(* C19: the total of a ranking or search response (totalAnalyzed, total,   *)
(* stats.totalUsers, totalMatches) is the number of records that passed    *)
(* all the filters, counted before the truncation to the limit: it does    *)
(* not depend on the limit parameter.                                      *)
C19_TotalCountsBeforeTruncation ==
    Listed =>
        res.total = Cardinality({ i \in DOMAIN users : PassesAllFilters(users[i]) })

\* the limit has cut the list: the total exceeds the length of the list
C19_Witness ==
    /\ Listed
    /\ req.limit = Number(1)
    /\ Len(res.list) = 1
    /\ res.total = 2

----------------------------------------------------------------------------
(* C20: when the fetch of the record store fails during a ranking or       *)
(* search request, the endpoint answers with status 500 and a body with    *)
(* success: false and an error string; it never answers a failed fetch     *)
(* with a success status.                                                  *)
C20_FailedFetchAnswers500 ==
    (Answered /\ fetch = "failed") =>
        /\ res.status = 500
        /\ res.success = FALSE
        /\ res.body = "error"

----------------------------------------------------------------------------
\* the number of reads of the record store the invocation has made: the
\* handlers call once('value') at one place, outside any loop
ReadsOfStore == IF fetch = "none" THEN 0 ELSE 1

----------------------------------------------------------------------------
\* the request went through the main handler of part_002
ThroughLimiter == Answered /\ req.endpoint = "part002"

\* the responses the request of this state can get from its own
\* parameters, the snapshot and its own now alone
OwnResponses ==
    {dispatcherCatch} \cup
        (IF req.path = "/trending"
         THEN handleTrendingResponses(users, req, Now)
         ELSE handleLeaderboardResponses(users, req))

\* the Map holds for ip an entry younger than the window whose count has
\* reached the limit
Exhausted(ip) ==
    /\ ip \in DOMAIN requestCounts
    /\ requestCounts[ip].count >= RateLimit
    /\ clock - requestCounts[ip].timestamp <= windowMs

----------------------------------------------------------------------------
\* f[0] + ... + f[k]
RECURSIVE SumUpTo(_, _)
SumUpTo(f, k) == IF k < 0 THEN 0 ELSE f[k] + SumUpTo(f, k - 1)

\* the requests of ip that checkRateLimit accepted in the 15 minutes that
\* end at the present reading of the clock, both ends included
AcceptedInWindow(ip) == SumUpTo(accepted[ip], windowMs)

(* C29: the rate limiter never accepts more than 100 requests of one       *)
(* address within any window of 15 minutes: at every moment, the requests  *)
(* of an address accepted in the 15 minutes that end there number at most  *)
(* 100.                                                                    *)
C29_AtMostLimitPerWindow ==
    \A ip \in ClientIPs : AcceptedInWindow(ip) <= RateLimit

\* a window holds a hundred accepted requests spread over both of its
\* ends, and the next request is refused
C29_Witness ==
    /\ ThroughLimiter
    /\ res.status = 429
    /\ accepted[req.ip][0] > 0
    /\ accepted[req.ip][windowMs] > 0
    /\ AcceptedInWindow(req.ip) = RateLimit

(* C30: the rate limiter answers 429 only to a request whose address had   *)
(* at least 100 requests accepted within the preceding 15 minutes.         *)
C30_RejectsOnlyFullWindow ==
    (ThroughLimiter /\ res.status = 429)
        => AcceptedInWindow(req.ip) >= RateLimit

----------------------------------------------------------------------------
\* the score the handler of the request computes for a record when the
\* Date.now() it scores the record against is now, before toFixed(4)
ScoreAt(user, now) ==
    CASE req.endpoint = "sort" -> SORT_ALGORITHMS(AskedAlgorithm, user, now)
      [] req.endpoint = "part001" -> calculateScore(user, AskedAlgorithm, now)
      [] req.endpoint \in {"trending", "part000"} ->
           trendScore(AskedAlgorithm, user.points, user.submissions,
                      (now - user.createdAt) \div HOUR)
      [] req.endpoint = "handleTrending" ->
           calculateTrendingScore(user, AskedAlgorithm, now)

\* every listed score is the score of its record against now
AllScoredAt(now) ==
    \A i \in DOMAIN res.list :
        EntryScore(res.list[i]) = toFixed4(ScoreAt(users[res.list[i].id], now))

(* C23: within one ranking request every record is scored against one     *)
(* shared value of now, also when the clock advances between the scoring   *)
(* of two records, and that value is the now of the timeframe cutoff (the  *)
(* sort endpoint of part_001 has no cutoff: there any one value will do).  *)
C23_OneSharedNow ==
    (Listed /\ req.endpoint \in ScoringEndpoints) =>
        IF req.endpoint = "part001"
        THEN AllScoredAt(Now) \/ AllScoredAt(Now + HOUR)
        ELSE AllScoredAt(Now)

----------------------------------------------------------------------------
\* the record with its creation moved to now
CreatedNow(user) == [user EXCEPT !.createdAt = Now]

\* endpoints whose handler reads the clock once and scores against it
SharedNowEndpoints == {"sort", "trending", "part000"}

(* C24: every scoring formula uses age = max(now - createdAt, 0): every    *)
(* listed score is a finite number, and a listed record created later      *)
(* than now has the score of the same record created at now.               *)
C24_AgeClampedScoreFinite ==
    (Listed /\ req.endpoint \in ScoringEndpoints) =>
        \A i \in DOMAIN res.list :
            LET user == users[res.list[i].id]
            IN  /\ EntryScore(res.list[i]).k = "num"
                /\ (req.endpoint \in SharedNowEndpoints /\ user.createdAt > Now)
                      => EntryScore(res.list[i])
                           = toFixed4(ScoreAt(CreatedNow(user), Now))

----------------------------------------------------------------------------
\* the stored records of the listed entries, in the order of the list
RankedRecords == [i \in DOMAIN res.list |-> users[res.list[i].id]]

\* the response again lists the records of RankedRecords in their order
SameRecordsSameOrder(again) ==
    /\ again.status = 200
    /\ Len(again.list) = Len(res.list)
    /\ \A i \in DOMAIN again.list :
           RankedRecords[again.list[i].id] = RankedRecords[i]

(* C25: filtering and ranking are idempotent: the records of a ranked      *)
(* result of the sort endpoint, ranked again with the same parameters and  *)
(* the same now, give the same records in the same order.                  *)
C25_RerankingIsIdempotent ==
    (Listed /\ req.endpoint = "sort") =>
        \A again \in sortResponses(RankedRecords, req, Now) :
            SameRecordsSameOrder(again)

----------------------------------------------------------------------------
\* the invocation that wrote the record under the key id
WriterOf(id) == reg[id[2]]

\* the stored records (by position) that invocations of handler h wrote
WrittenBy(h) == { i \in DOMAIN users : WriterOf(users[i].id).handler = h }

\* the invocation p has sent its response
Responded(p) == reg[p].pc = "done"

(* C26: after any interleaving of concurrent registration requests of      *)
(* src/api/register.js no two records of the user store have the same      *)
(* username_lower: of two requests whose usernames are equal               *)
(* case-insensitively at most one writes a record and gets 201.            *)
C26_NoDuplicateUsernameLower ==
    /\ \A i, j \in WrittenBy("register") :
           i < j => users[i].username_lower # users[j].username_lower
    /\ \A p, q \in Procs :
           (/\ p # q
            /\ reg[p].handler = "register" /\ reg[q].handler = "register"
            /\ Responded(p) /\ Responded(q)
            /\ toLowerCase(reg[p].username) = toLowerCase(reg[q].username))
               => ~(reg[p].res.status = 201 /\ reg[q].res.status = 201)

(* C27: handleRegister is all-or-nothing: when it has returned, with 201   *)
(* or with an error status, the auth account, the users/{uid} record and   *)
(* the profiles/{uid} record of the new user all exist or none of them     *)
(* does.                                                                   *)
C27_RegisterAllOrNothing ==
    \A p \in Procs :
        (reg[p].handler = "handleRegister" /\ Responded(p)) =>
            LET account == \E a \in auth : a.uid = UserId(p)
                record == \E i \in DOMAIN users : users[i].id = UserId(p)
                profile == UserId(p) \in profiles
            IN  (account <=> record) /\ (record <=> profile)

(* C28: every registration handler sends a success response only after     *)
(* the user record with the returned userId has been written: whenever a   *)
(* response says success:true, the store holds a record under its userId.  *)
C28_SuccessOnlyAfterWrite ==
    \A p \in Procs :
        (Responded(p) /\ reg[p].res.success) =>
            \E i \in DOMAIN users : users[i].id = reg[p].res.userId

====
